---- MODULE Spec2Model ----
(***************************************************************************)
(* Model of the software-validation report views, of the contract and      *)
(* hardware detail views and of the validated-software serializer of        *)
(* nautobot_device_lifecycle_mgmt.                                          *)
(*                                                                         *)
(*   views.py            ReportOverviewHelper, the two report views,        *)
(*                       ContractLCMView, HardwareLCMView                   *)
(*   api/serializers.py  ValidatedSoftwareLCMSerializer.get_assigned_to     *)
(*                                                                         *)
(* Spec, SpecRuns and SpecJobs follow one report request at a time and      *)
(* leave the plotting library's registry aside: what a request exposes does *)
(* not depend on it while no other request is in flight. SpecWorkers        *)
(* follows the requests of several workers statement by statement.          *)
(*                                                                         *)
(* Percentages are kept in hundredths of a percent (70.0 is 7000), so that  *)
(* round(x, 2) is an integer computation.                                   *)
(***************************************************************************)
EXTENDS Integers, Sequences, FiniteSets, TLC

VARIABLES
    entity,     \* which report is served: its result table is `cache`
    cache,      \* the validation-result table: one row per subject, or NoRow
    targets,    \* the dcim objects a policy can be assigned to, as <<kind, id>>
    out,        \* the call being served and what it returned (NoOut when idle)
    figs,       \* pyplot's figure registry: the figures created and not closed
    gcf,        \* pyplot's current figure: an index of figs, 0 when there is none
    th,         \* the worker threads serving report requests side by side
    job,        \* the batch job run in progress, NoJob when none is
    completed,  \* the run types of the batch job runs that have completed, in order
    contacts,   \* the ContactLCM table
    devices     \* the dcim Device table, each device with its inventory items

pyplot == <<figs, gcf, th>>
jobs == <<job, completed>>
tables == <<contacts, devices>>

vars == <<entity, cache, targets, out, figs, gcf, th, job, completed, contacts, devices>>

----------------------------------------------------------------------------
(* Bounds *)

NumSubjects == 3    \* subjects (devices or inventory items) that may have a row
MaxTime == 3        \* instants at which a row is saved (last_updated)
MaxRun == 2         \* instants at which a batch job starts (last_run)
MaxTally == 10      \* largest total of a tally handed to the static helpers
MaxId == 2          \* object ids per assignable kind
NumThreads == 2     \* worker threads of the web server
MaxFigures == 4     \* figures the registry holds before no request is taken on
MaxContacts == 3    \* rows of the ContactLCM table
MaxDevices == 2     \* rows of the dcim Device table

----------------------------------------------------------------------------
(* Values *)

None == "None"                      \* Python None, SQL NULL
IsNone(v) == ToString(v) = ToString(None)   \* `v is None`, for a v of any type
NoRow == [absent |-> TRUE]          \* the subject has no row in the table
NoOut == [op |-> "none"]
NoJob == [running |-> FALSE]
Idle == [pc |-> "idle"]
KeyError == "KeyError"
ValueError == "ValueError"

REPORT_FULL_RUN == "full-report-run"
REPORT_PARTIAL_RUN == "partial-report-run"
RunTypes == {REPORT_FULL_RUN, REPORT_PARTIAL_RUN}

Entities == {"device", "inventory"}
Subjects == 1 .. NumSubjects
Times == 1 .. MaxTime
RunTimes == 1 .. MaxRun
Threads == 1 .. NumThreads

\* device__platform__name / inventory_item__manufacturer__name of a subject.
\* Subjects 1 and 2 share a name, subject 3 has no platform (manufacturer),
\* the others carry a second name.
GroupNames(e) == IF e = "device" THEN {"ios", "eos"} ELSE {"cisco", "arista"}
FirstName(e) == IF e = "device" THEN "ios" ELSE "cisco"
SecondName(e) == IF e = "device" THEN "eos" ELSE "arista"
GroupName(e, s) ==
    IF s = 3 THEN None ELSE IF s <= 2 THEN FirstName(e) ELSE SecondName(e)

\* A row as the batch job writes it: is_validated only with a software. The
\* views compare last_run with last_run and last_updated with last_updated
\* only, so each is drawn from a scale of its own.
Rows ==
    { r \in [is_validated : BOOLEAN, software : {None, "sw"}, run_type : RunTypes,
             last_run : RunTimes, last_updated : Times] :
        r.is_validated => r.software # None }

\* The request's query parameters: none, or one platform (manufacturer) name.
NoFilter == "NoFilter"
Filters(e) == {NoFilter} \cup GroupNames(e)

Present == {s \in Subjects : cache[s] # NoRow}

\* self.filterset(request.GET, qs).qs over the whole table
FilterQs(f) ==
    {s \in Present : f = NoFilter \/ GroupName(entity, s) = f}

----------------------------------------------------------------------------
(* Aggregation: the Q filters and Count of views.py *)

\* Q(is_validated=True)
QValid(r) == r.is_validated = TRUE

\* QInvalid with Python's `and` between the two Q objects, which yields the
\* second operand alone
QInvalid_and(r) == r.software # None

\* Q(is_validated=False) & ~Q(software=None)
QInvalid(r) == r.is_validated = FALSE /\ r.software # None

\* Q(software=None)
QNoSoftware(r) == r.software = None

\* SubjectColumn counting the group name instead of the subject
SubjectColumn_name(s) == GroupName(entity, s)

\* The counted columns: the subject itself ("device", "inventory_item"; never
\* NULL) and its group name.
SubjectColumn(s) == s
NameColumn(s) == GroupName(entity, s)
ColumnValue(col, s) == IF col = "subject" THEN SubjectColumn(s) ELSE NameColumn(s)

\* Count(<column>) over the rows S: SQL COUNT skips the rows whose column is NULL.
CountAll(S, col) == Cardinality({s \in S : ~IsNone(ColumnValue(col, s))})
CountValid(S, col) ==
    Cardinality({s \in S : ~IsNone(ColumnValue(col, s)) /\ QValid(cache[s])})
CountInvalid(S, col) ==
    Cardinality({s \in S : ~IsNone(ColumnValue(col, s)) /\ QInvalid(cache[s])})
CountNoSoftware(S, col) ==
    Cardinality({s \in S : ~IsNone(ColumnValue(col, s)) /\ QNoSoftware(cache[s])})

\* RoundPercent cutting the digits off instead of rounding
RoundPercent_floor(n, d) == (n * 10000) \div d

\* round(n / d * 100, 2) in hundredths, for d > 0: the nearest hundredth, a tie
\* going to the even one.
RoundPercent(n, d) ==
    LET num == n * 10000
        q == num \div d
        r == num % d
    IN  IF 2 * r < d THEN q
        ELSE IF 2 * r > d THEN q + 1
        ELSE IF q % 2 = 0 THEN q ELSE q + 1

Raised(exc) == [raised |-> exc]
IsRaised(v) == ~IsNone(v) /\ "raised" \in DOMAIN v

\* ReportOverviewHelper.calculate_aggr_percentage: the dict with valid_percent
\* added, or the exception that leaves the function.
calculate_aggr_percentage(aggr) ==
    IF "valid" \notin DOMAIN aggr \/ "total" \notin DOMAIN aggr
    THEN Raised(KeyError)
    ELSE IF aggr.total = 0
         THEN ("valid_percent" :> 0) @@ aggr
         ELSE ("valid_percent" :> RoundPercent(aggr.valid, aggr.total)) @@ aggr

EntityLabel(e) == IF e = "device" THEN "Devices" ELSE "Inventory Items"

\* <View>.filterset: both views set it, so the aggregate branch is always taken.
HasFilterset == TRUE

\* get_global_aggr of both report views
get_global_aggr(f) ==
    LET qs == FilterQs(f)
        aggr == IF HasFilterset
                THEN [total |-> CountAll(qs, "subject"),
                      valid |-> CountValid(qs, "subject"),
                      invalid |-> CountInvalid(qs, "subject"),
                      no_software |-> CountNoSoftware(qs, "subject"),
                      name |-> EntityLabel(entity)]
                ELSE <<>>
    IN  calculate_aggr_percentage(aggr)

\* One row of _platform_qs: .values(<name>).annotate(total=Count(<name>), ...)
GroupRow(qs, k) ==
    LET members == {s \in qs : NameColumn(s) = k}
    IN  [name |-> k,
         total |-> CountAll(members, "name"),
         valid |-> CountValid(members, "name"),
         invalid |-> CountInvalid(members, "name"),
         no_software |-> CountNoSoftware(members, "name")]

GroupRows(f) ==
    LET qs == FilterQs(f)
    IN  {GroupRow(qs, k) : k \in {NameColumn(s) : s \in qs}}

\* OrderByTotalDesc without the minus sign: order_by("total")
OrderByTotalDesc_asc(seq) ==
    \A i \in 1 .. Len(seq) - 1 : seq[i].total <= seq[i + 1].total

\* .order_by("-total")
OrderByTotalDesc(seq) ==
    \A i \in 1 .. Len(seq) - 1 : seq[i].total >= seq[i + 1].total

\* platform_qs as the database may return it: the group rows in an order that
\* order_by allows (rows of equal total come in any order).
platform_qs(f) ==
    LET G == GroupRows(f)
    IN  {seq \in [1 .. Cardinality(G) -> G] :
            /\ \A i, j \in DOMAIN seq : i # j => seq[i] # seq[j]
            /\ OrderByTotalDesc(seq)}

\* The column the list rows are grouped by: device__device_type__model for
\* devices, inventory_item__name for inventory items; neither is ever NULL.
\* Subjects 1 and 3 share one, subject 2 has another, the rest a third.
ListNames(e) == IF e = "device" THEN <<"mx", "qfx", "srx">> ELSE <<"sfp", "psu", "fan">>
ListColumn(e, s) ==
    IF s = 1 \/ s = 3 THEN ListNames(e)[1]
    ELSE IF s = 2 THEN ListNames(e)[2] ELSE ListNames(e)[3]

\* The filter of `invalid` in the class queryset. In the device view it is
\* written `Q(is_validated=False) and ~Q(software=None)`: Python's `and` of two
\* Q objects is the second one. The inventory-item view writes `&`.
QInvalidList(e, r) ==
    IF e = "device" THEN r.software # None ELSE QInvalid(r)

\* The database backends the application runs on
Backends == {"postgresql", "mysql"}

\* 100 * F("valid") / F("total") in ten-thousandths of a percent, for total > 0.
\* The operands are integer counts: PostgreSQL divides them as integers, MySQL
\* gives a decimal of four places.
ValidPercentExpr(valid, total, db) ==
    IF db = "postgresql"
    THEN ((100 * valid) \div total) * 10000
    ELSE (2 * 100 * valid * 10000 + total) \div (2 * total)

\* One row of the class queryset: .values(<column>).annotate(...)
ListRow(e, qs, k, db) ==
    LET members == {s \in qs : ListColumn(e, s) = k}
        total == Cardinality(members)
        valid == Cardinality({s \in members : QValid(cache[s])})
    IN  [name |-> k,
         total |-> total,
         valid |-> valid,
         invalid |-> Cardinality({s \in members : QInvalidList(e, cache[s])}),
         no_software |-> Cardinality({s \in members : QNoSoftware(cache[s])}),
         valid_percent |-> ValidPercentExpr(valid, total, db)]

\* .order_by("-valid_percent")
OrderByValidPercentDesc(seq) ==
    \A i \in 1 .. Len(seq) - 1 : seq[i].valid_percent >= seq[i + 1].valid_percent

\* The class queryset of a report view under the request's filter, as the
\* database may return it
queryset(e, f, db) ==
    LET qs == FilterQs(f)
        G == {ListRow(e, qs, k, db) : k \in {ListColumn(e, s) : s \in qs}}
    IN  {seq \in [1 .. Cardinality(G) -> G] :
            /\ \A i, j \in DOMAIN seq : i # j => seq[i] # seq[j]
            /\ OrderByValidPercentDesc(seq)}

----------------------------------------------------------------------------
(* Charts *)

GREEN == "#D5E8D4"
RED == "#F8CECC"
GREY == "#808080"

pie_chart_attrs ==
    [aggr_labels |-> <<"valid", "invalid", "no_software">>,
     chart_labels |-> <<"Valid", "Invalid", "No Software">>]

bar_chart_attrs(e) ==
    [label_accessor |-> IF e = "device" THEN "device__platform__name"
                        ELSE "inventory_item__manufacturer__name",
     ylabel |-> IF e = "device" THEN "Device" ELSE "Inventory Item",
     title |-> IF e = "device" THEN "Valid per Platform" ELSE "Valid per Manufacturer",
     chart_bars |-> <<[label |-> "Valid", data_attr |-> "valid", color |-> GREEN],
                      [label |-> "Invalid", data_attr |-> "invalid", color |-> RED],
                      [label |-> "No Software", data_attr |-> "no_software",
                       color |-> GREY]>>]

\* ax1.pie(sizes, ...) followed by fig.savefig: the encoded image. The plotting
\* library normalises the sizes by their sum; when every size is 0 it divides
\* 0 by 0, and depending on its version it raises or saves a figure without
\* wedges.
DrawPie(sizes, attrs, title) ==
    LET image == [kind |-> "pie", sizes |-> sizes, labels |-> attrs.chart_labels,
                  colors |-> <<GREEN, RED, GREY>>, title |-> title]
    IN  IF \A i \in DOMAIN sizes : sizes[i] = 0
        THEN {image, Raised(ValueError)}
        ELSE {image}

\* `aggr[pie_chart_attrs["aggr_labels"][0]] is None`
FirstLabelIsNone(aggr, attrs) == IsNone(aggr[attrs.aggr_labels[1]])

\* ReportOverviewHelper.plot_piechart_visual: the set of possible results, each
\* None, an image or a raised exception.
plot_piechart_visual(aggr, attrs) ==
    IF attrs.aggr_labels[1] \notin DOMAIN aggr
    THEN {Raised(KeyError)}
    ELSE IF FirstLabelIsNone(aggr, attrs)
    THEN {None}
    ELSE DrawPie([i \in DOMAIN attrs.aggr_labels |-> aggr[attrs.aggr_labels[i]]],
                 attrs, aggr.name)

\* ReportOverviewHelper.plot_barchart_visual: one cluster per row of qs, one bar
\* per chart_bars entry. A bar is at label location `location`, shifted by
\* `offset` bar widths; autolabel annotates it with its height at y = 0.5
\* (anchor_twice_y is twice that y).
plot_barchart_visual(qs, attrs) ==
    [kind |-> "bar",
     xticklabels |-> [i \in DOMAIN qs |-> qs[i].name],
     ylabel |-> attrs.ylabel,
     title |-> attrs.title,
     rects |-> [b \in DOMAIN attrs.chart_bars |->
                  [i \in DOMAIN qs |->
                     [location |-> i - 1,
                      offset |-> (b - 1) - 1,
                      height |-> qs[i][attrs.chart_bars[b].data_attr],
                      label |-> attrs.chart_bars[b].label,
                      color |-> attrs.chart_bars[b].color,
                      text |-> qs[i][attrs.chart_bars[b].data_attr],
                      anchor_twice_y |-> 1]]]]

----------------------------------------------------------------------------
(* The report views *)

\* <Result>.objects.filter(run_type=REPORT_FULL_RUN)
FullRunRows == {s \in Present : cache[s].run_type = REPORT_FULL_RUN}

\* Latest taking any row of S, as a query without ordering would
Latest_any(S) == S

\* .latest("last_updated") over the rows S (S not empty): a row no other row of
\* S was updated after.
Latest(S) == {s \in S : \A t \in S : cache[t].last_updated <= cache[s].last_updated}

\* The try/except at the head of setup: the values report_last_run may take.
report_last_run ==
    IF FullRunRows = {}
    THEN {None}
    ELSE {cache[s].last_run : s \in Latest(FullRunRows)}

\* What setup leaves for a request with query parameters f, given the result
\* of its three queries and of the pie chart. A chart that raises ends the
\* request before extra_content is assigned.
Response(f, last, qs, visual) ==
    [op |-> "setup",
     request |-> f,
     status |-> IF IsRaised(visual) THEN "error" ELSE "ok",
     raised |-> IF IsRaised(visual) THEN visual.raised ELSE None,
     aggr |-> get_global_aggr(f),
     platform_qs |-> qs,
     extra_content |->
         IF IsRaised(visual)
         THEN <<>>
         ELSE [bar_chart |-> plot_barchart_visual(qs, bar_chart_attrs(entity)),
               aggr |-> get_global_aggr(f),
               visual |-> visual,
               report_last_run |-> last]]

\* setup of a report view for a request with query parameters f
setup(f) ==
    /\ out = NoOut
    /\ \E last \in report_last_run, qs \in platform_qs(f) :
         \E visual \in plot_piechart_visual(get_global_aggr(f), pie_chart_attrs) :
            out' = Response(f, last, qs, visual)
    /\ UNCHANGED <<entity, cache, targets, pyplot, jobs, tables>>

\* get of the list view the report views derive from, after setup: the rows of
\* the table under the charts are the class queryset under the request's filter.
get ==
    /\ out.op = "setup"
    /\ out.status = "ok"
    /\ "object_list" \notin DOMAIN out
    /\ \E db \in Backends :
         \E rows \in queryset(entity, out.request, db) :
            out' = [object_list |-> rows, db |-> db] @@ out
    /\ UNCHANGED <<entity, cache, targets, pyplot, jobs, tables>>

\* The client sends the request it has just got the response to once more: a
\* new view instance runs setup with the same query parameters. `first` keeps
\* the response it got before.
SetupAgain ==
    /\ out.op = "setup"
    /\ "first" \notin DOMAIN out
    /\ \E last \in report_last_run, qs \in platform_qs(out.request) :
         \E visual \in plot_piechart_visual(get_global_aggr(out.request),
                                            pie_chart_attrs) :
            out' = [first |-> out] @@ Response(out.request, last, qs, visual)
    /\ UNCHANGED <<entity, cache, targets, pyplot, jobs, tables>>

\* ValidatedSoftwareDeviceReportView.setup
DeviceSetup ==
    /\ entity = "device"
    /\ \E f \in Filters("device") : setup(f)

\* ValidatedSoftwareInventoryItemReportView.setup
InventorySetup ==
    /\ entity = "inventory"
    /\ \E f \in Filters("inventory") : setup(f)

\* last_updated is set at each save (auto_now): the instant t of a save is
\* later than the instant of every save before it.
SavedAt(t) ==
    \A u \in Subjects : cache[u] # NoRow => cache[u].last_updated < t

\* The batch job saves the row of subject s: its validation outcome, the run
\* type and start time of the job, and the time of the save. Jobs of both run
\* types overlap: a row saved later may belong to a job started earlier.
BatchSave ==
    /\ out = NoOut
    /\ \E s \in Subjects, r \in Rows :
          /\ SavedAt(r.last_updated)
          /\ cache' = [cache EXCEPT ![s] = r]
    /\ UNCHANGED <<entity, targets, out, pyplot, jobs, tables>>

\* The same save by one full run alone: every row carries the job's run type
\* and start time.
FullRunSave ==
    /\ out = NoOut
    /\ \E s \in Subjects, r \in Rows :
          /\ r.run_type = REPORT_FULL_RUN
          /\ r.last_run = 1
          /\ SavedAt(r.last_updated)
          /\ cache' = [cache EXCEPT ![s] = r]
    /\ UNCHANGED <<entity, targets, out, pyplot, jobs, tables>>

\* A run of the batch job starts: full or partial, its start time the next one.
StartRun ==
    /\ out = NoOut
    /\ job = NoJob
    /\ Len(completed) < MaxRun
    /\ \E type \in RunTypes :
          job' = [running |-> TRUE, run_type |-> type, last_run |-> Len(completed) + 1]
    /\ UNCHANGED <<entity, cache, targets, out, pyplot, completed, tables>>

\* The running job saves the row of a subject it covers, overwriting the row
\* the subject had, with its own run type and start time.
JobSave ==
    /\ out = NoOut
    /\ job # NoJob
    /\ \E s \in Subjects, r \in Rows :
          /\ r.run_type = job.run_type
          /\ r.last_run = job.last_run
          /\ SavedAt(r.last_updated)
          /\ cache' = [cache EXCEPT ![s] = r]
    /\ UNCHANGED <<entity, targets, out, pyplot, jobs, tables>>

\* The rows the running job has saved
SavedByJob == {s \in Present : cache[s].last_run = job.last_run}

\* The running job completes, having covered a subject at least.
FinishRun ==
    /\ out = NoOut
    /\ job # NoJob
    /\ SavedByJob # {}
    /\ completed' = Append(completed, job.run_type)
    /\ job' = NoJob
    /\ UNCHANGED <<entity, cache, targets, out, pyplot, tables>>

\* extra_context of both views hands self.extra_content to the template; the
\* response leaves and the view instance is dropped.
extra_context ==
    /\ out.op = "setup"
    /\ out' = NoOut
    /\ UNCHANGED <<entity, cache, targets, pyplot, jobs, tables>>

\* No figure yet, every worker idle, no job run yet, the other tables empty
InitRest ==
    /\ figs = <<>>
    /\ gcf = 0
    /\ th = [t \in Threads |-> Idle]
    /\ job = NoJob
    /\ completed = <<>>
    /\ contacts = {}
    /\ devices = {}

Init ==
    /\ entity \in Entities
    /\ cache = [s \in Subjects |-> NoRow]
    /\ targets = {}
    /\ out = NoOut
    /\ InitRest

\* The reports over the table one full run has filled
Next == FullRunSave \/ DeviceSetup \/ InventorySetup \/ get \/ extra_context

Spec == Init /\ [][Next]_vars

\* The reports over the table that overlapping runs of both types fill
NextRuns == BatchSave \/ DeviceSetup \/ InventorySetup \/ extra_context

SpecRuns == Init /\ [][NextRuns]_vars

\* The reports over the table that runs of the batch job, one after the other,
\* fill and overwrite
NextJobs ==
    \/ StartRun \/ JobSave \/ FinishRun
    \/ DeviceSetup \/ InventorySetup \/ SetupAgain \/ extra_context

SpecJobs == Init /\ [][NextJobs]_vars

----------------------------------------------------------------------------
(* The report views served by several worker threads. pyplot keeps one       *)
(* registry of figures and one current figure for the whole process:         *)
(* plt.subplots() adds a figure and makes it current, plt.title() and         *)
(* plt.gcf() act on whatever figure is current, and nothing in views.py       *)
(* closes a figure. A worker's locals are its record in th.                   *)

InFlight == {t \in Threads : th[t] # Idle}

\* The workers whose request has its pie figure still to create
PieAhead == {t \in InFlight : th[t].pc \in {"bar_save", "pie"}}

\* setup up to the bars of the first chart: super().setup, the report_last_run
\* query, get_global_aggr, and plot_barchart_visual up to autolabel, where
\* platform_qs is evaluated, plt.subplots registers a figure and makes it
\* current, and the bars are drawn on its axes. The worker takes the request on
\* while the registry has room for the figures of the requests in flight and
\* of this one.
BarDraw(t) ==
    /\ th[t] = Idle
    /\ Len(figs) + Cardinality(PieAhead) + 2 <= MaxFigures
    /\ \E f \in Filters(entity), last \in report_last_run :
       \E qs \in platform_qs(f) :
          /\ figs' = Append(figs, plot_barchart_visual(qs, bar_chart_attrs(entity)))
          /\ th' = [th EXCEPT ![t] = [pc |-> "bar_save", request |-> f,
                                      report_last_run |-> last,
                                      aggr |-> get_global_aggr(f),
                                      platform_qs |-> qs,
                                      fig |-> Len(figs) + 1]]
    /\ gcf' = Len(figs) + 1
    /\ UNCHANGED <<entity, cache, targets, out, jobs, tables>>

\* fig.savefig of plot_barchart_visual: the image of the figure the call holds
BarSave(t) ==
    /\ th[t].pc = "bar_save"
    /\ th' = [th EXCEPT ![t] = [pc |-> "pie", bar_chart |-> figs[th[t].fig]] @@ th[t]]
    /\ UNCHANGED <<entity, cache, targets, out, figs, gcf, jobs, tables>>

\* The sizes of the pie, aggr_label by aggr_label
PieSizes(aggr, attrs) == [i \in DOMAIN attrs.aggr_labels |-> aggr[attrs.aggr_labels[i]]]

\* self.extra_content = {...}, the last statement of setup, for a pie `visual`
ExtraContent(t, visual) ==
    [bar_chart |-> th[t].bar_chart,
     aggr |-> th[t].aggr,
     visual |-> visual,
     report_last_run |-> th[t].report_last_run]

\* plot_piechart_visual up to ax1.axis("equal"): the guard, plt.subplots and
\* ax1.pie. A pie that raises ends the request; its figure stays registered.
PieDraw(t) ==
    /\ th[t].pc = "pie"
    /\ IF FirstLabelIsNone(th[t].aggr, pie_chart_attrs)
       THEN /\ th' = [th EXCEPT ![t] =
                        [pc |-> "done", extra_content |-> ExtraContent(t, None)]
                        @@ th[t]]
            /\ UNCHANGED <<figs, gcf>>
       ELSE \E pie \in DrawPie(PieSizes(th[t].aggr, pie_chart_attrs),
                               pie_chart_attrs, None) :
               /\ figs' = Append(figs, IF IsRaised(pie)
                                       THEN [kind |-> "pie", title |-> None]
                                       ELSE pie)
               /\ gcf' = Len(figs) + 1
               /\ th' = [th EXCEPT ![t] =
                           IF IsRaised(pie)
                           THEN [pc |-> "raised", raised |-> pie.raised] @@ th[t]
                           ELSE [pc |-> "title", fig1 |-> Len(figs) + 1] @@ th[t]]
    /\ UNCHANGED <<entity, cache, targets, out, jobs, tables>>

\* plt.title(aggr["name"], y=-0.1): the title of the current figure's axes
PieTitle(t) ==
    /\ th[t].pc = "title"
    /\ figs' = [figs EXCEPT ![gcf].title = th[t].aggr.name]
    /\ th' = [th EXCEPT ![t].pc = "gcf"]
    /\ UNCHANGED <<entity, cache, targets, out, gcf, jobs, tables>>

\* fig = plt.gcf()
PieGcf(t) ==
    /\ th[t].pc = "gcf"
    /\ th' = [th EXCEPT ![t] = [pc |-> "savefig", fig |-> gcf] @@ th[t]]
    /\ UNCHANGED <<entity, cache, targets, out, figs, gcf, jobs, tables>>

\* fig.savefig and the return of plot_piechart_visual, the image of fig, which
\* setup assigns with the rest of extra_content
PieSave(t) ==
    /\ th[t].pc = "savefig"
    /\ th' = [th EXCEPT ![t] =
                [pc |-> "done", extra_content |-> ExtraContent(t, figs[th[t].fig])]
                @@ th[t]]
    /\ UNCHANGED <<entity, cache, targets, out, figs, gcf, jobs, tables>>

\* extra_context hands self.extra_content to the template and the response
\* leaves; a request that raised leaves as an error. The worker is free again.
Respond(t) ==
    /\ th[t].pc \in {"done", "raised"}
    /\ th' = [th EXCEPT ![t] = Idle]
    /\ UNCHANGED <<entity, cache, targets, out, figs, gcf, jobs, tables>>

\* The table is filled by a full run before the workers take requests on; the
\* run goes through the subjects in their order, one instant each.
FillTable ==
    /\ InFlight = {}
    /\ figs = <<>>
    /\ FullRunSave
    /\ \A s \in Subjects : cache'[s] # NoRow => cache'[s].last_updated = s

Worker(t) ==
    \/ BarDraw(t) \/ BarSave(t) \/ PieDraw(t) \/ PieTitle(t)
    \/ PieGcf(t) \/ PieSave(t) \/ Respond(t)

NextWorkers == FillTable \/ \E t \in Threads : Worker(t)

SpecWorkers == Init /\ [][NextWorkers]_vars

----------------------------------------------------------------------------
(* The static helpers called on their own *)

EntityLabels == {EntityLabel(e) : e \in Entities}

\* Tallies as an aggregate query returns them, up to MaxTally rows.
Tallies ==
    {[total |-> v + i + n, valid |-> v, invalid |-> i, no_software |-> n, name |-> l] :
        v \in 0 .. MaxTally, i \in 0 .. MaxTally, n \in 0 .. MaxTally,
        l \in EntityLabels}

BoundedTallies == {t \in Tallies : t.total <= MaxTally}

\* A dict without the key k
Without(d, k) == [x \in DOMAIN d \ {k} |-> d[x]]

\* What a caller may hand to plot_piechart_visual: a tally as it is ("full"), a
\* tally whose first aggregation field is None ("null"), or one that lacks the
\* field ("absent").
PieShapes == {"full", "null", "absent"}
PieInput(t, shape) ==
    IF shape = "null" THEN [t EXCEPT !.valid = None]
    ELSE IF shape = "absent" THEN Without(t, "valid")
    ELSE t

CalcAggrPercentageCall ==
    /\ out = NoOut
    /\ \E aggr \in BoundedTallies \cup {<<>>} :
          out' = [op |-> "calculate_aggr_percentage", aggr |-> aggr,
                  result |-> calculate_aggr_percentage(aggr)]
    /\ UNCHANGED <<entity, cache, targets, pyplot, jobs, tables>>

PlotPiechartCall ==
    /\ out = NoOut
    /\ \E t \in BoundedTallies, shape \in PieShapes :
         \E result \in plot_piechart_visual(PieInput(t, shape), pie_chart_attrs) :
            out' = [op |-> "plot_piechart_visual", shape |-> shape,
                    aggr |-> PieInput(t, shape), result |-> result]
    /\ UNCHANGED <<entity, cache, targets, pyplot, jobs, tables>>

\* The caller takes the result.
Return ==
    /\ out.op \in {"calculate_aggr_percentage", "plot_piechart_visual",
                   "get_assigned_to", "contract_detail", "hardware_detail"}
    /\ out' = NoOut
    /\ UNCHANGED <<entity, cache, targets, pyplot, jobs, tables>>

InitHelper ==
    /\ entity = "device"
    /\ cache = [s \in Subjects |-> NoRow]
    /\ targets = {}
    /\ out = NoOut
    /\ InitRest

NextHelper == CalcAggrPercentageCall \/ PlotPiechartCall \/ Return

SpecHelper == InitHelper /\ [][NextHelper]_vars

----------------------------------------------------------------------------
(* api/serializers.py: ValidatedSoftwareLCMSerializer *)

\* assigned_to_content_type: the dcim models a policy may point at
ContentTypes == {"device", "devicetype", "inventoryitem"}
Ids == 1 .. MaxId

\* A validated-software policy, as far as assigned_to goes
Policies == [assigned_to_content_type : ContentTypes, assigned_to_object_id : Ids]

\* obj.assigned_to, the GenericForeignKey: the object of that content type with
\* that id, None when there is none.
assigned_to(obj) ==
    IF <<obj.assigned_to_content_type, obj.assigned_to_object_id>> \in targets
    THEN [model |-> obj.assigned_to_content_type, pk |-> obj.assigned_to_object_id]
    ELSE None

\* NestedSerializerFor naming the device serializer whatever the model
NestedSerializerFor_device(instance) == "NestedDeviceSerializer"

\* get_serializer_for_model(instance, prefix="Nested"): "Nested" + the model's
\* class name + "Serializer"
NestedSerializerFor(instance) ==
    CASE instance.model = "device" -> "NestedDeviceSerializer"
      [] instance.model = "devicetype" -> "NestedDeviceTypeSerializer"
      [] instance.model = "inventoryitem" -> "NestedInventoryItemSerializer"

\* ValidatedSoftwareLCMSerializer.get_assigned_to
get_assigned_to(obj) ==
    IF IsNone(assigned_to(obj))
    THEN None
    ELSE [serializer |-> NestedSerializerFor(assigned_to(obj)),
          data |-> [id |-> assigned_to(obj).pk, model |-> assigned_to(obj).model]]

GetAssignedToCall ==
    /\ out = NoOut
    /\ \E obj \in Policies :
          out' = [op |-> "get_assigned_to", obj |-> obj, result |-> get_assigned_to(obj)]
    /\ UNCHANGED <<entity, cache, targets, pyplot, jobs, tables>>

\* dcim objects come and go under the policies that point at them.
CreateTarget ==
    /\ out = NoOut
    /\ \E k \in ContentTypes, i \in Ids :
          /\ <<k, i>> \notin targets
          /\ targets' = targets \cup {<<k, i>>}
    /\ UNCHANGED <<entity, cache, out, pyplot, jobs, tables>>

DeleteTarget ==
    /\ out = NoOut
    /\ \E t \in targets : targets' = targets \ {t}
    /\ UNCHANGED <<entity, cache, out, pyplot, jobs, tables>>

NextSerializer == CreateTarget \/ DeleteTarget \/ GetAssignedToCall \/ Return

SpecSerializer == InitHelper /\ [][NextSerializer]_vars

----------------------------------------------------------------------------
(* The detail views: ContractLCMView and HardwareLCMView *)

\* The users who send requests: a superuser, a user whose view permission is
\* constrained to the objects with id 1, a user without view permission.
Users == {"admin", "operator", "guest"}

\* <Model>.objects.restrict(request.user, "view") over the rows objs
restrict(user, objs) ==
    {o \in objs : user = "admin" \/ (user = "operator" /\ o.id = 1)}

\* The contract being viewed and another one
Contracts == {"c1", "c2"}

\* The contact types, in the order the database sorts them
ContactTypes == <<"Owner", "Primary", "Unassigned">>
TypeRank(type) == CHOOSE i \in DOMAIN ContactTypes : ContactTypes[i] = type
Priorities == 1 .. 2

ContactIds == 1 .. MaxContacts
ContactRows ==
    [id : ContactIds, contract : Contracts,
     type : {ContactTypes[i] : i \in DOMAIN ContactTypes}, priority : Priorities]

\* .order_by("type", "priority")
OrderByTypePriority(seq) ==
    \A i \in 1 .. Len(seq) - 1 :
        \/ TypeRank(seq[i].type) < TypeRank(seq[i + 1].type)
        \/ /\ seq[i].type = seq[i + 1].type
           /\ seq[i].priority <= seq[i + 1].priority

\* The rows S as the database may return them under that order
Ordered(S) ==
    {seq \in [1 .. Cardinality(S) -> S] :
        /\ \A i, j \in DOMAIN seq : i # j => seq[i] # seq[j]
        /\ OrderByTypePriority(seq)}

\* NonOwners without the exclude
NonOwners_all(user, instance) ==
    {c \in restrict(user, contacts) : c.contract = instance}

\* restrict(...).filter(contract=instance).exclude(type="Owner")
NonOwners(user, instance) ==
    {c \in restrict(user, contacts) : c.contract = instance /\ ~(c.type = "Owner")}

\* restrict(...).filter(contract=instance, type="Owner")
Owners(user, instance) ==
    {c \in restrict(user, contacts) : c.contract = instance /\ c.type = "Owner"}

\* ContractLCMView.get_extra_context: the contexts it may return
ContractLCMView_get_extra_context(user, instance) ==
    {[contacts |-> cs, owners |-> os] :
        cs \in Ordered(NonOwners(user, instance)),
        os \in Ordered(Owners(user, instance))}

ContractDetail ==
    /\ out = NoOut
    /\ \E user \in Users, instance \in Contracts :
         \E context \in ContractLCMView_get_extra_context(user, instance) :
            out' = [op |-> "contract_detail", user |-> user, instance |-> instance,
                    result |-> context]
    /\ UNCHANGED <<entity, cache, targets, pyplot, jobs, tables>>

\* ContactLCMCreateView and ContactLCMDeleteView: contacts come and go.
CreateContact ==
    /\ out = NoOut
    /\ \E c \in ContactRows :
          /\ \A d \in contacts : d.id # c.id
          /\ contacts' = contacts \cup {c}
    /\ UNCHANGED <<entity, cache, targets, out, pyplot, jobs, devices>>

DeleteContact ==
    /\ out = NoOut
    /\ \E c \in contacts : contacts' = contacts \ {c}
    /\ UNCHANGED <<entity, cache, targets, out, pyplot, jobs, devices>>

NextContract == CreateContact \/ DeleteContact \/ ContractDetail \/ Return

SpecContract == InitHelper /\ [][NextContract]_vars

\* dcim device types and the part ids of inventory items
DeviceTypes == {"mx480", "qfx5100"}
Parts == {"psu-a", "sfp-b"}

\* The inventory items of a device, as the list of their part ids: none, one,
\* or two (which may carry the same part id)
PartLists ==
    {<<>>} \cup {<<p>> : p \in Parts} \cup {<<p, q>> : p \in Parts, q \in Parts}

DeviceIds == 1 .. MaxDevices
DeviceRows == [id : DeviceIds, device_type : DeviceTypes, inventoryitems : PartLists]

\* The hardware record being viewed: device_type is a device type or None,
\* inventory_item a part id, None or the empty string
HardwareRecords ==
    [device_type : DeviceTypes \cup {None}, inventory_item : Parts \cup {None, ""}]

\* DevicesOfType without restrict
DevicesOfType_all(user, device_type) ==
    {[device |-> d, item |-> 0] : d \in {x \in devices : x.device_type = device_type}}

\* Device.objects.restrict(request.user, "view").filter(device_type=...): one
\* row per device
DevicesOfType(user, device_type) ==
    {[device |-> d, item |-> 0] :
        d \in {x \in restrict(user, devices) : x.device_type = device_type}}

\* Device.objects.restrict(request.user, "view").filter(inventoryitems__part_id=
\* ...): the join gives one row per inventory item that matches, so a device
\* with two such items comes twice
DevicesWithPart(user, part) ==
    {r \in [device : restrict(user, devices), item : 1 .. 2] :
        /\ r.item \in DOMAIN r.device.inventoryitems
        /\ r.device.inventoryitems[r.item] = part}

\* HardwareLCMView.get_extra_context
HardwareLCMView_get_extra_context(user, instance) ==
    IF instance.device_type # None
    THEN [devices |-> DevicesOfType(user, instance.device_type)]
    ELSE IF instance.inventory_item # None /\ instance.inventory_item # ""
    THEN [devices |-> DevicesWithPart(user, instance.inventory_item)]
    ELSE [devices |-> {}]

HardwareDetail ==
    /\ out = NoOut
    /\ \E user \in Users, instance \in HardwareRecords :
          out' = [op |-> "hardware_detail", user |-> user, instance |-> instance,
                  result |-> HardwareLCMView_get_extra_context(user, instance)]
    /\ UNCHANGED <<entity, cache, targets, pyplot, jobs, tables>>

\* dcim devices come and go, with their inventory items.
CreateDevice ==
    /\ out = NoOut
    /\ \E d \in DeviceRows :
          /\ \A x \in devices : x.id # d.id
          /\ devices' = devices \cup {d}
    /\ UNCHANGED <<entity, cache, targets, out, pyplot, jobs, contacts>>

DeleteDevice ==
    /\ out = NoOut
    /\ \E d \in devices : devices' = devices \ {d}
    /\ UNCHANGED <<entity, cache, targets, out, pyplot, jobs, contacts>>

NextHardware == CreateDevice \/ DeleteDevice \/ HardwareDetail \/ Return

SpecHardware == InitHelper /\ [][NextHardware]_vars

----------------------------------------------------------------------------
(* Claims *)

Abs(x) == IF x < 0 THEN -x ELSE x
IsImage(v) == ~IsNone(v) /\ "kind" \in DOMAIN v
SumsToTotal(t) == t.valid + t.invalid + t.no_software = t.total

\* The rows of the table that the request of the response in `out` selects
RequestRows ==
    {s \in Subjects :
        /\ cache[s] # NoRow
        /\ (out.request = NoFilter \/ GroupName(entity, s) = out.request)}

\* C1: in every report response the global tally and every row of the
\* per-group tally satisfy valid + invalid + no_software = total.
C1_TallySum ==
    out.op = "setup" =>
        /\ SumsToTotal(out.aggr)
        /\ \A i \in DOMAIN out.platform_qs : SumsToTotal(out.platform_qs[i])

\* A response over rows of all three outcomes, in two groups
C1_Witness ==
    /\ out.op = "setup"
    /\ out.aggr.valid > 0 /\ out.aggr.invalid > 0 /\ out.aggr.no_software > 0
    /\ Len(out.platform_qs) = 2

\* C2: the global tally counts the rows the request filter selects: total all
\* of them, valid those with is_validated, invalid those not validated that
\* have a software, no_software those without one; name is the entity label.
C2_GlobalTally ==
    out.op = "setup" =>
        /\ out.aggr.total = Cardinality(RequestRows)
        /\ out.aggr.valid = Cardinality({s \in RequestRows : cache[s].is_validated})
        /\ out.aggr.invalid =
             Cardinality({s \in RequestRows :
                            ~cache[s].is_validated /\ cache[s].software # None})
        /\ out.aggr.no_software =
             Cardinality({s \in RequestRows : cache[s].software = None})
        /\ out.aggr.name = (IF entity = "device" THEN "Devices" ELSE "Inventory Items")

\* An inventory-item request whose filter keeps two rows of three
C2_Witness ==
    /\ out.op = "setup"
    /\ entity = "inventory"
    /\ out.request # NoFilter
    /\ out.aggr.total = 2
    /\ out.aggr.valid = 1
    /\ Cardinality(Present) = 3

\* C3: every group row of the per-group breakdown, the group of the rows
\* without a platform (manufacturer) included, carries the counts of the rows
\* of its group: total is the number of those rows.
C3_GroupCounts ==
    out.op = "setup" =>
        \A i \in DOMAIN out.platform_qs :
            LET g == out.platform_qs[i]
                members == {s \in RequestRows : GroupName(entity, s) = g.name}
            IN  /\ g.total = Cardinality(members)
                /\ g.valid = Cardinality({s \in members : cache[s].is_validated})
                /\ g.invalid =
                     Cardinality({s \in members :
                                    ~cache[s].is_validated /\ cache[s].software # None})
                /\ g.no_software =
                     Cardinality({s \in members : cache[s].software = None})

\* C4: calculate_aggr_percentage on a tally with 0 <= valid <= total does not
\* raise; valid_percent is 0 when total is 0 and otherwise the hundredth nearest
\* to valid / total * 100 (70.0 for 7 of 10), and it lies in 0 .. 100.
C4_Percentage ==
    (out.op = "calculate_aggr_percentage" /\ "total" \in DOMAIN out.aggr) =>
        /\ ~IsRaised(out.result)
        /\ LET p == out.result.valid_percent
               t == out.aggr.total
               v == out.aggr.valid
           IN  /\ t = 0 => p = 0
               /\ t # 0 => 2 * Abs(p * t - v * 10000) <= t
               /\ (t = 10 /\ v = 7) => p = 7000
               /\ p >= 0 /\ p <= 10000

\* A percentage that is rounded up: 2 of 3 is 66.67
C4_Witness ==
    /\ out.op = "calculate_aggr_percentage"
    /\ "total" \in DOMAIN out.aggr
    /\ out.aggr.total = 3 /\ out.aggr.valid = 2
    /\ out.result.valid_percent = 6667

\* C5: plot_piechart_visual returns None without failing when the tally's
\* `valid` is None or absent, and an image in every other case.
C5_PieNoneOrImage ==
    out.op = "plot_piechart_visual" =>
        IF "valid" \notin DOMAIN out.aggr \/ IsNone(out.aggr.valid)
        THEN IsNone(out.result)
        ELSE IsImage(out.result)

\* C6: a report request whose filtered rows are none (valid = invalid =
\* no_software = 0) short-circuits the pie chart: the visual it exposes is None
\* and no pie is drawn from the all-zero sizes.
C6_EmptyShortCircuits ==
    (/\ out.op = "setup"
     /\ out.aggr.valid = 0 /\ out.aggr.invalid = 0 /\ out.aggr.no_software = 0) =>
        /\ out.status = "ok"
        /\ IsNone(out.extra_content.visual)

\* C7: the per-group rows handed to the bar chart, computed over the rows the
\* request filter selects, come in non-increasing order of total.
C7_DescendingTotal ==
    out.op = "setup" =>
        \A i, j \in DOMAIN out.platform_qs :
            i < j => out.platform_qs[i].total >= out.platform_qs[j].total

\* Two groups of different totals
C7_Witness ==
    /\ out.op = "setup"
    /\ Len(out.platform_qs) = 2
    /\ out.platform_qs[1].total = 2
    /\ out.platform_qs[2].total = 0

\* The part of C8 that is about where the value comes from: an exposed
\* report_last_run is None when no row is tagged full-run and otherwise the
\* last_run of a row tagged full-run.
ReportLastRunFromFullRun ==
    (out.op = "setup" /\ out.status = "ok") =>
        IF \E s \in Present : cache[s].run_type = REPORT_FULL_RUN
        THEN \E s \in Present :
                /\ cache[s].run_type = REPORT_FULL_RUN
                /\ out.extra_content.report_last_run = cache[s].last_run
        ELSE IsNone(out.extra_content.report_last_run)

\* C8: report_last_run comes from a row tagged full-run only; when no row is
\* tagged full-run (only partial-run rows, or no row at all) it is None and the
\* request does not fail.
C8_FullRunOnly ==
    /\ ReportLastRunFromFullRun
    /\ (/\ out.op = "setup"
        /\ ~ \E s \in Present : cache[s].run_type = REPORT_FULL_RUN) =>
            out.status = "ok"

\* C9: when a row is tagged full-run, report_last_run is the greatest last_run
\* of the rows tagged full-run.
C9_LatestLastRun ==
    (/\ out.op = "setup"
     /\ out.status = "ok"
     /\ \E s \in Present : cache[s].run_type = REPORT_FULL_RUN) =>
        \A s \in Present :
            cache[s].run_type = REPORT_FULL_RUN =>
                cache[s].last_run <= out.extra_content.report_last_run

\* C10: get_assigned_to returns None when no object has the policy's content
\* type and object id, and otherwise the nested representation of that very
\* object, made by the nested serializer of its kind.
C10_AssignedTo ==
    out.op = "get_assigned_to" =>
        LET ct == out.obj.assigned_to_content_type
            oid == out.obj.assigned_to_object_id
        IN  IF <<ct, oid>> \notin targets
            THEN IsNone(out.result)
            ELSE /\ ~IsNone(out.result)
                 /\ out.result.data.id = oid
                 /\ out.result.data.model = ct
                 /\ ct = "device" => out.result.serializer = "NestedDeviceSerializer"
                 /\ ct = "devicetype" =>
                        out.result.serializer = "NestedDeviceTypeSerializer"
                 /\ ct = "inventoryitem" =>
                        out.result.serializer = "NestedInventoryItemSerializer"

\* An inventory item resolved while a device has the same id
C10_Witness ==
    /\ out.op = "get_assigned_to"
    /\ out.obj.assigned_to_content_type = "inventoryitem"
    /\ <<"device", out.obj.assigned_to_object_id>> \in targets
    /\ ~IsNone(out.result)
    /\ out.result.serializer = "NestedInventoryItemSerializer"

\* C11: whatever the interleaving of two report requests, the pie image a
\* request exposes is rendered from the figure that request created, shows its
\* own tally and is titled with its tally's name, and its bar chart is the
\* chart of its own group rows (stated for the requests that select a row; the
\* pie of an empty selection is the matter of C6).
C11_OwnFigure ==
    \A t \in Threads :
        (/\ th[t].pc = "done"
         /\ th[t].aggr.total > 0
         /\ IsImage(th[t].extra_content.visual)) =>
            /\ th[t].fig = th[t].fig1
            /\ th[t].extra_content.visual.kind = "pie"
            /\ th[t].extra_content.visual.sizes =
                 <<th[t].aggr.valid, th[t].aggr.invalid, th[t].aggr.no_software>>
            /\ th[t].extra_content.visual.title = th[t].aggr.name
            /\ th[t].extra_content.bar_chart.kind = "bar"
            /\ th[t].extra_content.bar_chart.title = bar_chart_attrs(entity).title
            /\ th[t].extra_content.aggr = get_global_aggr(th[t].request)

\* C12: when a report request that selected a row has completed and no other
\* request is in flight, the plotting library holds no figure: the request
\* released the figures its two charts allocated.
C12_FiguresReleased ==
    [][\A t \in Threads :
          (/\ th[t].pc = "done"
           /\ th[t].aggr.total > 0
           /\ th'[t] = Idle
           /\ InFlight = {t}) => Len(figs') = 0]_vars

\* The rows of a sequence, whatever their order
RowSet(seq) == {seq[i] : i \in DOMAIN seq}

C15_NullOnlyBeforeFullRun ==
    (/\ out.op = "setup"
     /\ out.status = "ok"
     /\ \E i \in DOMAIN completed : completed[i] = REPORT_FULL_RUN) =>
        ~IsNone(out.extra_content.report_last_run)

\* C14: the bar chart has exactly one bar for every group row and chart_bars
\* entry, as high as the row's data_attr value and annotated with that height,
\* the annotation anchored at or above the top of the bar.
C14_BarAnnotatedAbove ==
    (out.op = "setup" /\ out.status = "ok") =>
        LET chart == out.extra_content.bar_chart
            bars == bar_chart_attrs(entity).chart_bars
        IN  /\ DOMAIN chart.rects = DOMAIN bars
            /\ \A b \in DOMAIN bars :
                  /\ DOMAIN chart.rects[b] = DOMAIN out.platform_qs
                  /\ \A i \in DOMAIN out.platform_qs :
                        /\ chart.rects[b][i].height = out.platform_qs[i][bars[b].data_attr]
                        /\ chart.rects[b][i].text = chart.rects[b][i].height
                        /\ chart.rects[b][i].anchor_twice_y >= 2 * chart.rects[b][i].height

\* C16: every list row of both reports counts as the tallies do: invalid is
\* the number of its rows that are not validated and have a software, valid +
\* invalid + no_software = total, and the rows come in non-increasing order of
\* valid_percent.
C16_ListRowCounts ==
    (out.op = "setup" /\ "object_list" \in DOMAIN out) =>
        /\ \A i \in DOMAIN out.object_list :
              LET g == out.object_list[i]
                  members == {s \in RequestRows : ListColumn(entity, s) = g.name}
              IN  /\ g.invalid =
                       Cardinality({s \in members :
                                      ~cache[s].is_validated /\ cache[s].software # None})
                  /\ SumsToTotal(g)
        /\ \A i, j \in DOMAIN out.object_list :
              i < j => out.object_list[i].valid_percent >= out.object_list[j].valid_percent

RECURSIVE SumOf(_, _)
SumOf(seq, field) ==
    IF seq = <<>> THEN 0 ELSE Head(seq)[field] + SumOf(Tail(seq), field)

\* C17: in every report response the per-group rows add up to the global
\* tally, field by field: both are computed over the rows the filter selects.
C17_GroupsSumToGlobal ==
    out.op = "setup" =>
        \A field \in {"total", "valid", "invalid", "no_software"} :
            SumOf(out.platform_qs, field) = out.aggr[field]

\* C18: on a contract's detail page, owners and contacts are two disjoint lists
\* that together hold each contact of that contract the user may view once:
\* owners those of type "Owner", contacts those of any other type; no contact
\* of another contract is in either, and each list is in order of type and
\* then of priority.
C18_ContactsSplit ==
    out.op = "contract_detail" =>
        LET cs == out.result.contacts
            os == out.result.owners
            mine == {c \in contacts :
                        /\ c.contract = out.instance
                        /\ (out.user = "admin" \/ (out.user = "operator" /\ c.id = 1))}
        IN  /\ RowSet(os) = {c \in mine : c.type = "Owner"}
            /\ RowSet(cs) = {c \in mine : c.type # "Owner"}
            /\ RowSet(os) \cap RowSet(cs) = {}
            /\ Len(os) = Cardinality(RowSet(os))
            /\ Len(cs) = Cardinality(RowSet(cs))
            /\ \A l \in {cs, os} :
                  \A i, j \in DOMAIN l :
                      i < j =>
                          \/ TypeRank(l[i].type) < TypeRank(l[j].type)
                          \/ (l[i].type = l[j].type /\ l[i].priority <= l[j].priority)

\* An owner and two other contacts of the contract, of two types
C18_Witness ==
    /\ out.op = "contract_detail"
    /\ out.user = "admin"
    /\ Len(out.result.owners) = 1
    /\ Len(out.result.contacts) = 2
    /\ out.result.contacts[1].type # out.result.contacts[2].type

\* C19: on a hardware record's detail page the devices are: for a record with
\* a device type, the devices of that type the user may view, whatever its
\* inventory-item part; else, for a record with an inventory-item part, the
\* devices the user may view that have an inventory item with that part id;
\* else none.
C19_HardwareDevices ==
    out.op = "hardware_detail" =>
        LET listed == {r.device : r \in out.result.devices}
            viewable == {d \in devices :
                            out.user = "admin" \/ (out.user = "operator" /\ d.id = 1)}
            dt == out.instance.device_type
            part == out.instance.inventory_item
        IN  /\ listed \subseteq viewable
            /\ dt # None => listed = {d \in viewable : d.device_type = dt}
            /\ (dt = None /\ part \in Parts) =>
                  listed = {d \in viewable :
                              \E i \in DOMAIN d.inventoryitems : d.inventoryitems[i] = part}
            /\ (dt = None /\ part \notin Parts) => out.result.devices = {}

\* A record with a device type and a part: the device of that type is listed,
\* the device of another type that has the part is not
C19_Witness ==
    /\ out.op = "hardware_detail"
    /\ out.user = "admin"
    /\ out.instance.device_type # None
    /\ out.instance.inventory_item \in Parts
    /\ Cardinality(out.result.devices) = 1
    /\ \E d \in devices :
          /\ d.device_type # out.instance.device_type
          /\ \E i \in DOMAIN d.inventoryitems :
                d.inventoryitems[i] = out.instance.inventory_item

====
